---- MODULE Spec2Model ----
(***************************************************************************)
(* A model of the u-blox 7 UBX driver: the Fletcher-8 checksum, the frame  *)
(* builder of send_ubx_command, the validating decoder parse_ubx_message,  *)
(* the bounded retry loop get_ublox7_message and the two satellite-info    *)
(* decoders (src/src/lib.rs, src/src/main.rs).                             *)
(*                                                                         *)
(* Bytes are integers 0..255, usize values are unbounded naturals (no      *)
(* usize arithmetic of the program can overflow on the inputs here), and   *)
(* slices are sequences; Rust index i is sequence index i + 1.             *)
(***************************************************************************)
EXTENDS Integers, Sequences, FiniteSets, TLC

VARIABLES
    pc,         \* position of the modelled call
    class,      \* class argument of send_ubx_command / get_ublox7_message
    id,         \* id argument
    payload,    \* payload argument (or the payload handed to a decoder)
    sendRes,    \* io::Result of the last send_ubx_command
    wire,       \* bytes the last send_ubx_command handed to the port
    data,       \* the byte slice handed to parse_ubx_message / ubx_checksum
    how,        \* how `data` was derived from `wire`
    parsed,     \* Option<UbxMessage> returned by parse_ubx_message
    sum,        \* (ck_a, ck_b) returned by ubx_checksum
    \* get_ublox7_message
    i,          \* loop variable of `for i in 1..=MAX_RETRY`
    owner,      \* who holds the Box<dyn SerialPort>
    ret,        \* value returned by get_ublox7_message
    writes,     \* calls of send_ubx_command so far
    writes_ok,  \* those that returned Ok
    reads,      \* calls of read_ubx_response so far
    w_this,     \* calls of send_ubx_command in attempt i
    r_this,     \* calls of read_ubx_response in attempt i
    unmatched,  \* attempts that ended without a matching response
    \* satellite decoders
    variant,    \* which decoder runs: get_sat_info or parse_nav_svinfo
    debug_assertions,   \* cfg(debug_assertions) of the build
    rows,       \* the satellite rows the decoder produced, in order
    sat_status  \* how the decoder ended

codecVars == <<class, id, payload, sendRes, wire, data, how, parsed, sum>>
engineVars == <<i, owner, ret, writes, writes_ok, reads, w_this, r_this, unmatched>>
satVars == <<variant, debug_assertions, rows, sat_status>>
vars == <<pc, codecVars, engineVars, satVars>>

----------------------------------------------------------------------------
(* Bounds of the model *)

MaxLen == 2          \* longest enumerated small payload
MaxCkLen == 3        \* longest enumerated checksum input
MaxExtra == 2        \* longest enumerated garbage prefix / suffix

(* Program constants *)

SYNC1 == 181         \* 0xB5
SYNC2 == 98          \* 0x62
MIN_FRAME == 8       \* 2 sync + class + id + 2 length + 2 checksum
U8_MOD == 256        \* u8 wrapping arithmetic, `& 0xFF`
U16_MAX == 65535     \* largest value of the u16 length field

Byte == 0 .. (U8_MOD - 1)

\* Byte values the enumerated inputs are built from.
CkBytes == {0, 1, 2, 3, 128, 255}
PayloadBytes == {0, 1, 255}
\* Message identities the driver requests: NAV-POSLLH and NAV-SAT.
MsgIds == {<<1, 2>>, <<1, 53>>}

RECURSIVE SeqsUpTo(_, _)
SeqsUpTo(S, n) ==
    IF n = 0 THEN {<<>>}
    ELSE LET shorter == SeqsUpTo(S, n - 1)
         IN  shorter \cup {Append(s, b) : s \in {t \in shorter : Len(t) = n - 1}, b \in S}

Fill(n, b) == [k \in 1 .. n |-> b]

\* Payloads: every short one, and two long ones around the u16 limit.
SmallPayloads == SeqsUpTo(PayloadBytes, MaxLen)
BigPayloads == {Fill(U16_MAX, 1), Fill(U16_MAX + 1, 1)}
Payloads == SmallPayloads \cup BigPayloads

----------------------------------------------------------------------------
(* lib.rs: ubx_checksum *)

\* One iteration of `for byte in data`.
ck_step_sum_bytes(acc, byte) ==
    <<(acc[1] + byte) % U8_MOD, (acc[2] + byte) % U8_MOD>>
ck_step(acc, byte) ==
    LET ck_a == (acc[1] + byte) % U8_MOD
    IN  <<ck_a, (acc[2] + ck_a) % U8_MOD>>

\* The loop over data[lo..hi] (1-based, inclusive), bytes visited in order.
\* The range is halved, and the accumulators after the left half are bound
\* as a value before the right half is entered, only to keep the depth of
\* evaluation logarithmic in the length.
RECURSIVE ck_fold(_, _, _, _)
ck_fold(bytes, lo, hi, acc) ==
    IF lo > hi THEN acc
    ELSE IF lo = hi THEN ck_step(acc, bytes[lo])
    ELSE LET mid == (lo + hi) \div 2
         IN  CHOOSE r \in {ck_fold(bytes, mid + 1, hi, left) :
                              left \in {ck_fold(bytes, lo, mid, acc)}} : TRUE

ubx_checksum(bytes) == ck_fold(bytes, 1, Len(bytes), <<0, 0>>)

----------------------------------------------------------------------------
(* lib.rs: send_ubx_command *)

\* The six header bytes: sync, class, id, little-endian payload.len().
header(c, d, p) ==
    <<SYNC1, SYNC2, c, d, Len(p) % U8_MOD, (Len(p) \div U8_MOD) % U8_MOD>>

\* `message` as it stands when write_all is called.
message_ck_with_sync(c, d, p) ==
    LET m == header(c, d, p) \o p
        ck == ubx_checksum(m)
    IN  m \o <<ck[1], ck[2]>>
message(c, d, p) ==
    LET m == header(c, d, p) \o p
        ck == ubx_checksum(SubSeq(m, 3, Len(m)))
    IN  m \o <<ck[1], ck[2]>>

\* What the port may have taken of m when write_all fails: a proper prefix.
PartialWrites(m) == {SubSeq(m, 1, k) : k \in {0, 1, Len(m) - 1}}

----------------------------------------------------------------------------
(* lib.rs: parse_ubx_message *)

None == [kind |-> "None", class |-> 0, id |-> 0, payload |-> <<>>]
Panic == [kind |-> "Panic", class |-> 0, id |-> 0, payload |-> <<>>]
Some(c, d, p) == [kind |-> "Some", class |-> c, id |-> d, payload |-> p]

\* data[i] and data[lo..hi] panic in Rust when out of range.
InRange(bytes, k) == k < Len(bytes)
SliceOk(bytes, lo, hi) == lo <= hi /\ hi <= Len(bytes)
At(bytes, k) == bytes[k + 1]
Slice(bytes, lo, hi) == SubSeq(bytes, lo + 1, hi)

u16_from_le_bytes(b0, b1) == b0 + U8_MOD * b1

\* `data.len() < 8 + len`: the payload or the checksum bytes are cut off.
too_short_exact(bytes, len) == Len(bytes) # MIN_FRAME + len
too_short_lax(bytes, len) == Len(bytes) < 6 + len
too_short(bytes, len) == Len(bytes) < MIN_FRAME + len

\* `ck_a == calc_a && ck_b == calc_b`
ck_match_b_only(ck_a, ck_b, calc) == ck_b = calc[2]
ck_match(ck_a, ck_b, calc) == ck_a = calc[1] /\ ck_b = calc[2]

parse_ubx_message(bytes) ==
    IF Len(bytes) < MIN_FRAME THEN None
    ELSE IF ~InRange(bytes, 0) THEN Panic
    ELSE IF At(bytes, 0) # SYNC1 THEN None
    ELSE IF ~InRange(bytes, 1) THEN Panic
    ELSE IF At(bytes, 1) # SYNC2 THEN None
    ELSE IF ~InRange(bytes, 5) THEN Panic
    ELSE
      LET c == At(bytes, 2)
          d == At(bytes, 3)
          len == u16_from_le_bytes(At(bytes, 4), At(bytes, 5))
      IN  IF too_short(bytes, len) THEN None
          ELSE IF ~SliceOk(bytes, 6, 6 + len) \/ ~InRange(bytes, 7 + len) THEN Panic
          ELSE
            LET p == Slice(bytes, 6, 6 + len)
                ck_a == At(bytes, 6 + len)
                ck_b == At(bytes, 7 + len)
                calc == ubx_checksum(Slice(bytes, 2, 6 + len))
            IN  IF ck_match(ck_a, ck_b, calc) THEN Some(c, d, p) ELSE None

----------------------------------------------------------------------------
(* Values of the variables a specification does not use *)

NoRet == [kind |-> "none", port |-> FALSE, msg |-> None]

EngineIdle ==
    /\ i = 0 /\ owner = "caller" /\ ret = NoRet
    /\ writes = 0 /\ writes_ok = 0 /\ reads = 0
    /\ w_this = 0 /\ r_this = 0 /\ unmatched = 0

SatIdle ==
    /\ variant = "none" /\ debug_assertions = FALSE
    /\ rows = <<>> /\ sat_status = "none"

----------------------------------------------------------------------------
(* The checksum on its own: ubx_checksum applied to enumerated inputs. *)

CkInputs == SeqsUpTo(CkBytes, MaxCkLen)

InitCk ==
    /\ pc = "ck"
    /\ data \in CkInputs
    /\ class = 0 /\ id = 0 /\ payload = <<>>
    /\ sendRes = "none" /\ wire = <<>> /\ how = "none"
    /\ parsed = None /\ sum = <<>>
    /\ EngineIdle /\ SatIdle

Checksum ==
    /\ pc = "ck"
    /\ sum' = ubx_checksum(data)
    /\ pc' = "ck_done"
    /\ UNCHANGED <<class, id, payload, sendRes, wire, data, how, parsed>>
    /\ UNCHANGED <<engineVars, satVars>>

NextCk == Checksum
SpecCk == InitCk /\ [][NextCk]_vars

----------------------------------------------------------------------------
(* The frame codec: send_ubx_command builds and writes a frame, and         *)
(* parse_ubx_message is applied to what a link could hand back.             *)

\* Bytes a faulty link may put in place of a header or checksum byte.
CorruptValues == {0, 1, 2, SYNC1, SYNC2, 255}
\* Bytes found before or after a frame in one read: garbage, or a whole frame.
ExtraBytes == {0, SYNC1}
Extras == (SeqsUpTo(ExtraBytes, MaxExtra) \ {<<>>}) \cup {message(1, 2, <<>>)}

InitCodec ==
    /\ pc = "codec"
    /\ \E m \in MsgIds : class = m[1] /\ id = m[2]
    /\ payload \in Payloads
    /\ sendRes = "none" /\ wire = <<>> /\ data = <<>> /\ how = "none"
    /\ parsed = None /\ sum = <<>>
    /\ EngineIdle /\ SatIdle

\* send_ubx_command(port, class, id, payload); the port decides the outcome.
Send ==
    /\ pc = "codec"
    /\ LET m == message(class, id, payload)
       IN  \/ /\ sendRes' = "Ok"            \* write_all and flush succeed
              /\ wire' = m
           \/ /\ sendRes' = "Err"           \* flush fails after a full write
              /\ wire' = m
           \/ /\ sendRes' = "Err"           \* write_all fails
              /\ wire' \in PartialWrites(m)
    /\ pc' = "sent"
    /\ UNCHANGED <<class, id, payload, data, how, parsed, sum>>
    /\ UNCHANGED <<engineVars, satVars>>

Decode(bytes, tag) ==
    /\ pc = "sent"
    /\ sendRes = "Ok"
    /\ data' = bytes
    /\ how' = tag
    /\ parsed' = parse_ubx_message(bytes)
    /\ pc' = "decoded"
    /\ UNCHANGED <<class, id, payload, sendRes, wire, sum>>
    /\ UNCHANGED <<engineVars, satVars>>

\* The frame comes back exactly as written.
DecodeExact == Decode(wire, "exact")

\* One payload byte is replaced by a different byte.
DecodeCorruptPayload ==
    /\ Len(payload) <= MaxLen
    /\ \E k \in 1 .. Len(payload) : \E v \in Byte \ {payload[k]} :
          Decode([wire EXCEPT ![6 + k] = v], "corrupt_payload")

\* Any one byte of the frame is replaced by a different byte.
DecodeCorruptByte ==
    /\ Len(payload) <= MaxLen
    /\ \E k \in 1 .. Len(wire) : \E v \in CorruptValues \ {wire[k]} :
          Decode([wire EXCEPT ![k] = v], "corrupt_byte")

\* Only a proper prefix of the frame arrives.
DecodeTruncated ==
    /\ Len(payload) <= MaxLen
    /\ \E k \in 0 .. (Len(wire) - 1) : Decode(SubSeq(wire, 1, k), "truncated")

\* More bytes follow the frame in the same buffer.
DecodeAppended ==
    \E s \in Extras : Decode(wire \o s, "appended")

\* The frame does not start at offset 0 of the buffer.
DecodePrepended ==
    /\ Len(payload) <= MaxLen
    /\ \E s \in Extras : Decode(s \o wire, "prepended")

NextCodec ==
    \/ Send
    \/ DecodeExact
    \/ DecodeCorruptPayload
    \/ DecodeCorruptByte
    \/ DecodeTruncated
    \/ DecodeAppended
    \/ DecodePrepended

SpecCodec == InitCodec /\ [][NextCodec]_vars

----------------------------------------------------------------------------
(* lib.rs: read_ubx_response;  main.rs: get_ublox7_message *)

MAX_RETRY == 10
READ_BUF == 1024     \* `let mut buf = [0u8; 1024]`

\* port.read(&mut buf) returns Ok(n) with at most READ_BUF of the bytes the
\* device sent, or Err.
port_read(avail) ==
    SubSeq(avail, 1, IF Len(avail) < READ_BUF THEN Len(avail) ELSE READ_BUF)

read_ubx_response(avail, read_ok) ==
    IF read_ok THEN parse_ubx_message(port_read(avail)) ELSE None

\* `if let Err(e) = send_ubx_command(..) { ..; continue; }`
after_send_always_read(res) == "read"
after_send(res) == IF res = "Err" THEN "continue" ELSE "read"

\* `response.class == class && response.id == id`
is_match_class_only(resp, c, d) == resp.class = c
is_match(resp, c, d) == resp.class = c /\ resp.id = d

\* `for i in 1..=MAX_RETRY`: is there an attempt after attempt k?
has_next_off_by_one(k) == k <= MAX_RETRY
has_next(k) == k < MAX_RETRY

\* What the device may have sent when the port is read, for a request (c, d).
OtherId(d) == IF d = 2 THEN 53 ELSE 2
Responses(c, d) ==
    { message(c, d, <<>>),                            \* the requested message
      message(c, d, <<7, 9>>),
      message(c, d, <<7>>) \o message(c, OtherId(d), <<>>),   \* two frames in one read
      message(c, OtherId(d), <<7>>),                  \* another message of the class
      message(5, d, <<>>),                            \* another class, same id
      [message(c, d, <<7>>) EXCEPT ![7] = 8],         \* a corrupted payload byte
      SubSeq(message(c, d, <<7, 9>>), 1, 9),          \* a frame cut short
      \* a frame one byte longer than the buffer (its last byte is never read)
      header(c, d, Fill(READ_BUF - 7, 1)) \o Fill(READ_BUF - 7, 1) \o <<0, 0>>,
      <<>> }                                          \* Ok(0)

InitEngine ==
    /\ pc = "idle"
    /\ \E m \in MsgIds : class = m[1] /\ id = m[2]
    /\ payload = <<>>                                 \* `payload: [u8; 0]`
    /\ sendRes = "none" /\ wire = <<>> /\ data = <<>> /\ how = "none"
    /\ parsed = None /\ sum = <<>>
    /\ EngineIdle /\ SatIdle

\* main calls get_ublox7_message(port, class, id, payload): the port moves in.
Call ==
    /\ pc = "idle"
    /\ owner' = "engine"
    /\ i' = 1
    /\ pc' = "send"
    /\ UNCHANGED <<codecVars, satVars, ret, writes, writes_ok, reads, w_this, r_this, unmatched>>

\* The end of attempt i without a match, after w writes and r reads in it:
\* the next attempt, or `Err(port)` after the last one.
NoMatch(w, r) ==
    /\ unmatched' = unmatched + 1
    /\ IF has_next(i)
       THEN /\ i' = i + 1
            /\ pc' = "send"
            /\ w_this' = 0 /\ r_this' = 0
            /\ UNCHANGED <<owner, ret>>
       ELSE /\ pc' = "exhausted"
            /\ owner' = "caller"
            /\ ret' = [kind |-> "Err", port |-> TRUE, msg |-> None]
            /\ w_this' = w /\ r_this' = r
            /\ UNCHANGED i

\* send_ubx_command(&mut *port, class, id, &payload) of attempt i.
SendAttempt ==
    /\ pc = "send"
    /\ writes' = writes + 1
    /\ \E res \in {"Ok", "Err"} :
          /\ sendRes' = res
          /\ LET m == message(class, id, payload)
             IN  IF res = "Ok" THEN wire' = m
                 ELSE wire' \in PartialWrites(m) \cup {m}
          /\ writes_ok' = IF res = "Ok" THEN writes_ok + 1 ELSE writes_ok
          /\ IF after_send(res) = "continue"
             THEN /\ NoMatch(w_this + 1, r_this)
                  /\ UNCHANGED reads
             ELSE /\ pc' = "read"
                  /\ w_this' = w_this + 1
                  /\ UNCHANGED <<i, owner, ret, reads, r_this, unmatched>>
    /\ UNCHANGED <<class, id, payload, data, how, parsed, sum, satVars>>

\* read_ubx_response(&mut *port) of attempt i and the match on its result.
ReadAttempt ==
    /\ pc = "read"
    /\ reads' = reads + 1
    /\ \E read_ok \in BOOLEAN : \E avail \in Responses(class, id) :
          /\ read_ok \/ avail = <<>>
          /\ how' = IF read_ok THEN "read_ok" ELSE "read_err"
          /\ data' = IF read_ok THEN port_read(avail) ELSE <<>>
          /\ parsed' = read_ubx_response(avail, read_ok)
    /\ IF parsed'.kind = "Panic"
       THEN /\ pc' = "panicked"                       \* unwinding drops the port
            /\ owner' = "dropped"
            /\ r_this' = r_this + 1
            /\ UNCHANGED <<i, ret, w_this, unmatched>>
       ELSE IF parsed'.kind = "Some" /\ is_match(parsed', class, id)
       THEN /\ pc' = "matched"
            /\ owner' = "caller"
            /\ ret' = [kind |-> "Ok", port |-> TRUE, msg |-> parsed']
            /\ r_this' = r_this + 1
            /\ UNCHANGED <<i, w_this, unmatched>>
       ELSE NoMatch(w_this, r_this + 1)
    /\ UNCHANGED <<class, id, payload, sendRes, wire, sum, writes, writes_ok, satVars>>

NextEngine == Call \/ SendAttempt \/ ReadAttempt

SpecEngine == InitEngine /\ [][NextEngine]_vars
\* Every write and read of the port returns within its timeout.
FairEngine == SpecEngine /\ WF_vars(NextEngine)

----------------------------------------------------------------------------
(* main.rs: get_sat_info (UBX-NAV-SAT, id 0x35) and parse_nav_svinfo         *)
(* (UBX-NAV-SVINFO, id 0x30)                                                 *)

MaxSatRows == 3      \* most complete 12-byte blocks in an enumerated payload

SAT_HEADER == 8      \* `payload.len() < 8`, `base = 8 + i * 12`
SAT_BLOCK == 12

i8_of(b) == IF b < 128 THEN b ELSE b - 256
i16_from_le_bytes(b0, b1) ==
    LET v == b0 + 256 * b1 IN IF v < 32768 THEN v ELSE v - 65536
\* Two's complement: the top byte carries the sign.
i32_from_le_bytes(b0, b1, b2, b3) ==
    b0 + 256 * b1 + 65536 * b2 + 16777216 * i8_of(b3)

\* `if base + 12 > payload.len() { ..; break; }`
block_cut(p, base) == base + SAT_BLOCK > Len(p)

\* The row get_sat_info prints for the block at `base`.
nav_sat_row(p, base) ==
    [ base |-> base,
      gnss_id |-> At(p, base),
      sv_id |-> At(p, base + 1),
      cno |-> At(p, base + 2),
      flags |-> At(p, base + 3),
      azimuth |-> i16_from_le_bytes(At(p, base + 4), At(p, base + 5)),
      elevation |-> i8_of(At(p, base + 6)),
      orbit_source |-> At(p, base + 7) ]

\* `for i in 0..num_svs` of get_sat_info, from index k on.
RECURSIVE nav_sat_loop(_, _, _, _)
nav_sat_loop(p, k, num_svs, acc) ==
    IF k >= num_svs THEN [rows |-> acc, status |-> "done"]
    ELSE LET base == SAT_HEADER + k * SAT_BLOCK
         IN  IF block_cut(p, base) THEN [rows |-> acc, status |-> "truncated"]
             ELSE IF ~InRange(p, base + 7) THEN [rows |-> acc, status |-> "Panic"]
             ELSE nav_sat_loop(p, k + 1, num_svs, Append(acc, nav_sat_row(p, base)))

\* get_sat_info on the payload of a response of class 0x01, id 0x35.
get_sat_info(p) ==
    IF Len(p) < SAT_HEADER THEN [rows |-> <<>>, status |-> "too_short"]
    ELSE nav_sat_loop(p, 0, At(p, 5), <<>>)

\* The row parse_nav_svinfo prints for the block at `base`.
svinfo_row(p, base) ==
    [ base |-> base,
      chn |-> At(p, base),
      svid |-> At(p, base + 1),
      flags |-> At(p, base + 2),
      quality |-> At(p, base + 3),
      cno |-> At(p, base + 4),
      elev |-> i8_of(At(p, base + 5)),
      azim |-> i16_from_le_bytes(At(p, base + 6), At(p, base + 7)),
      pr_res |-> i32_from_le_bytes(At(p, base + 8), At(p, base + 9),
                                   At(p, base + 10), At(p, base + 11)) ]

\* `for i in 0..num_ch` of parse_nav_svinfo, from index k on.
RECURSIVE svinfo_loop(_, _, _, _)
svinfo_loop(p, k, num_ch, acc) ==
    IF k >= num_ch THEN [rows |-> acc, status |-> "done"]
    ELSE LET base == SAT_HEADER + k * SAT_BLOCK
         IN  IF block_cut(p, base) THEN [rows |-> acc, status |-> "truncated"]
             ELSE IF ~InRange(p, base + 11) THEN [rows |-> acc, status |-> "Panic"]
             ELSE svinfo_loop(p, k + 1, num_ch, Append(acc, svinfo_row(p, base)))

\* parse_nav_svinfo(payload); the loop is compiled only under
\* #[cfg(debug_assertions)].
parse_nav_svinfo(p, debug) ==
    IF Len(p) < SAT_HEADER THEN [rows |-> <<>>, status |-> "too_short"]
    ELSE IF debug THEN svinfo_loop(p, 0, At(p, 4), <<>>)
    ELSE [rows |-> <<>>, status |-> "done"]

\* Enumerated payloads: every length up to MaxSatRows blocks and a partial
\* one, the two count bytes set, the other bytes a fixed pattern.
SatCounts == (0 .. (MaxSatRows + 1)) \cup {255}
SatPayload(len, c4, c5) ==
    [k \in 1 .. len |-> IF k = 5 THEN c4 ELSE IF k = 6 THEN c5 ELSE (k * 37) % 256]

InitSat ==
    /\ pc = "sat"
    /\ \E len \in 0 .. (SAT_HEADER + SAT_BLOCK * MaxSatRows + SAT_BLOCK - 1) :
          \E c4 \in SatCounts : \E c5 \in SatCounts : payload = SatPayload(len, c4, c5)
    /\ debug_assertions \in BOOLEAN
    /\ variant = "none" /\ rows = <<>> /\ sat_status = "none"
    /\ class = 0 /\ id = 0
    /\ sendRes = "none" /\ wire = <<>> /\ data = <<>> /\ how = "none"
    /\ parsed = None /\ sum = <<>>
    /\ EngineIdle

\* get_sat_info has read a response of class 0x01, id 0x35 with this payload.
DecodeNavSat ==
    /\ pc = "sat"
    /\ variant' = "NAV_SAT"
    /\ rows' = get_sat_info(payload).rows
    /\ sat_status' = get_sat_info(payload).status
    /\ pc' = "sat_done"
    /\ UNCHANGED <<codecVars, engineVars, debug_assertions>>

\* main has read a response of class 0x01, id 0x30 with this payload.
DecodeSvInfo ==
    /\ pc = "sat"
    /\ variant' = "NAV_SVINFO"
    /\ rows' = parse_nav_svinfo(payload, debug_assertions).rows
    /\ sat_status' = parse_nav_svinfo(payload, debug_assertions).status
    /\ pc' = "sat_done"
    /\ UNCHANGED <<codecVars, engineVars, debug_assertions>>

NextSat == DecodeNavSat \/ DecodeSvInfo

SpecSat == InitSat /\ [][NextSat]_vars

----------------------------------------------------------------------------
(* Properties of the checksum and the codec *)

RECURSIVE SumTo(_, _)
SumTo(s, n) == IF n = 0 THEN 0 ELSE SumTo(s, n - 1) + s[n]

RECURSIVE SumOfPrefixes(_, _)
SumOfPrefixes(s, n) ==
    IF n = 0 THEN 0 ELSE SumOfPrefixes(s, n - 1) + (SumTo(s, n) % 256)

\* C8: ubx_checksum returns (a, b), a the sum of all bytes modulo 256 and b
\* the sum modulo 256 of the values a takes after each byte; it gives (6, 10)
\* on [1, 2, 3] and (0, 0) on the empty sequence.
C8_ChecksumDefinition ==
    pc = "ck_done" =>
        /\ sum = <<SumTo(data, Len(data)) % 256, SumOfPrefixes(data, Len(data)) % 256>>
        /\ (data = <<1, 2, 3>> => sum = <<6, 10>>)
        /\ (data = <<>> => sum = <<0, 0>>)

C8_Witness == pc = "ck_done" /\ data = <<255, 255, 255>> /\ sum = <<253, 250>>

\* C1: parse_ubx_message applied to exactly the bytes send_ubx_command wrote
\* for a payload of at most 65535 bytes returns the same class, id and payload.
C1_RoundTrip ==
    (pc = "decoded" /\ how = "exact" /\ Len(payload) <= 65535) =>
        parsed = Some(class, id, payload)

C1_Witness ==
    /\ pc = "decoded" /\ how = "exact" /\ data = wire
    /\ payload = <<255, 1>> /\ parsed = Some(class, id, <<255, 1>>)

\* C2: send_ubx_command with a payload longer than 65535 bytes returns
\* PayloadTooLarge and writes nothing to the port.
C2_OversizedRejected ==
    (pc = "sent" /\ Len(payload) > 65535) =>
        (sendRes = "PayloadTooLarge" /\ wire = <<>>)

\* The frame conditions as the claim states them, on a 1-based sequence.
DeclaredLen(buf) == buf[5] + 256 * buf[6]
ValidFrame(buf) ==
    /\ Len(buf) >= 8
    /\ buf[1] = 181 /\ buf[2] = 98
    /\ Len(buf) >= 8 + DeclaredLen(buf)
    /\ <<buf[7 + DeclaredLen(buf)], buf[8 + DeclaredLen(buf)]>>
          = ubx_checksum(SubSeq(buf, 3, 6 + DeclaredLen(buf)))

\* C5: parse_ubx_message returns a message exactly when the buffer has at
\* least 8 bytes, starts with B5 62, holds 8 + L bytes for the declared
\* length L and carries the right checksum after the payload; otherwise it
\* returns None, and it never indexes outside the buffer.
C5_DecodeOnlyValidFrames ==
    pc = "decoded" =>
        /\ parsed.kind # "Panic"
        /\ ValidFrame(data) =>
              parsed = Some(data[3], data[4], SubSeq(data, 7, 6 + DeclaredLen(data)))
        /\ ~ValidFrame(data) => parsed = None

C5_Witness ==
    /\ pc = "decoded" /\ Len(data) >= 8 /\ data[1] = 181 /\ data[2] = 98
    /\ Len(data) < 8 + DeclaredLen(data)
    /\ parsed = None

\* C6: a valid frame with one payload byte replaced by a different byte is
\* rejected by parse_ubx_message.
C6_PayloadCorruptionDetected ==
    (pc = "decoded" /\ how = "corrupt_payload") => parsed = None

C6_Witness ==
    /\ pc = "decoded" /\ how = "corrupt_payload" /\ Len(payload) = 2
    /\ data[7] = (payload[1] + 128) % 256
    /\ parsed = None

\* C10: bytes after a valid frame do not change what parse_ubx_message
\* returns for it, and a frame behind other bytes is found only if the
\* buffer validates from offset 0, the result then being the offset-0 frame.
C10_FirstFrameOnly ==
    /\ (pc = "decoded" /\ how = "appended" /\ Len(payload) <= 65535) =>
          parsed = Some(class, id, payload)
    /\ (pc = "decoded" /\ how = "prepended") =>
          \/ parsed = None
          \/ /\ ValidFrame(data)
             /\ parsed = Some(data[3], data[4], SubSeq(data, 7, 6 + DeclaredLen(data)))

C10_Witness ==
    /\ pc = "decoded" /\ how = "appended"
    /\ data = wire \o message(1, 2, <<>>)
    /\ Len(payload) = 1
    /\ parsed = Some(class, id, payload)

----------------------------------------------------------------------------
(* Properties of the request/response loop *)

\* The buffer of a successful read holds, from offset 0, a valid frame of the
\* requested class and id.
MatchingRead(buf, tag) ==
    tag = "read_ok" /\ ValidFrame(buf) /\ buf[3] = class /\ buf[4] = id

\* What the loop does after an attempt that did not match.
Continues ==
    /\ i < 10 => (pc' = "send" /\ i' = i + 1 /\ ret' = NoRet /\ owner' = "engine")
    /\ i >= 10 => pc' = "exhausted"

\* C3: when the read of attempt k decodes to a valid frame of the requested
\* class and id after k - 1 attempts without a match, get_ublox7_message
\* returns Ok with that message and the port at attempt k, having written k
\* times and read at most k times; any other read, a valid frame of another
\* message included, is followed by the next attempt like a missing response.
C3_MatchAtAttemptK ==
    /\ [](pc = "matched" =>
            /\ i \in 1 .. 10 /\ unmatched = i - 1
            /\ writes = i /\ reads <= i /\ w_this = 1 /\ r_this = 1
            /\ ret.kind = "Ok" /\ ret.port /\ owner = "caller")
    /\ [][(pc = "read" /\ reads' = reads + 1) =>
            IF MatchingRead(data', how')
            THEN /\ pc' = "matched" /\ i' = i
                 /\ ret'.msg = Some(class, id, SubSeq(data', 7, 6 + DeclaredLen(data')))
            ELSE /\ Continues
                 /\ ret'.kind # "Ok"
                 /\ unmatched' = unmatched + 1]_vars
    /\ [][pc = "matched" => (writes' = writes /\ reads' = reads)]_vars

C3_Witness ==
    /\ pc = "matched" /\ i = 10 /\ unmatched = 9 /\ reads = 10
    /\ ret.kind = "Ok" /\ ret.msg = Some(class, id, <<7, 9>>)

\* C4: without a matching response get_ublox7_message ends after exactly 10
\* attempts, each with one write and at most one read, returns Err with the
\* port, and never ends without handing the port back.
C4_ExhaustionReturnsPort ==
    /\ [](pc = "exhausted" =>
            /\ i = 10 /\ unmatched = 10 /\ writes = 10 /\ reads <= 10
            /\ ret = [kind |-> "Err", port |-> TRUE, msg |-> None]
            /\ owner = "caller")
    /\ [](w_this <= 1 /\ r_this <= 1 /\ owner # "dropped")
    /\ [](pc \in {"send", "read"} => unmatched = i - 1 /\ writes = i - 1 + w_this)
    /\ <>(pc \in {"matched", "exhausted"} /\ owner = "caller" /\ ret.port)

C4_Witness ==
    /\ pc = "exhausted" /\ unmatched = 10 /\ reads = 10 /\ writes_ok = 10
    /\ ret.kind = "Err" /\ ret.port /\ owner = "caller"

\* C9: a failed write ends attempt i without a read and a failed read ends
\* it as no response, the loop going on to attempt i + 1 while i < 10; when
\* every write fails the loop ends exhausted after 10 writes and no read, and
\* there are never more reads than successful writes.
C9_TransportFailureConsumesOneAttempt ==
    /\ [](reads <= writes_ok)
    /\ []((pc = "exhausted" /\ writes_ok = 0) => (writes = 10 /\ reads = 0))
    /\ [][(pc = "send" /\ writes' = writes + 1 /\ sendRes' = "Err") =>
            (reads' = reads /\ r_this' = 0 /\ Continues)]_vars
    /\ [][(pc = "read" /\ reads' = reads + 1 /\ how' = "read_err") =>
            (parsed' = None /\ Continues)]_vars

C9_Witness ==
    pc = "exhausted" /\ writes_ok = 0 /\ writes = 10 /\ reads = 0 /\ sendRes = "Err"

----------------------------------------------------------------------------
(* Properties of the satellite decoders *)

Min(a, b) == IF a < b THEN a ELSE b

\* The declared count: byte offset 5 for NAV-SAT, byte offset 4 for NAV-SVINFO.
DeclaredCount == IF variant = "NAV_SAT" THEN payload[6] ELSE payload[5]

\* C7: on a payload of at least 8 bytes declaring C satellites, either
\* decoder produces exactly min(C, floor((len - 8) / 12)) rows in index
\* order, row i from the block at offset 8 + 12 * i, stopping early without
\* an error or a read past the payload when blocks are missing.
C7_SatelliteRowsTruncate ==
    (pc = "sat_done" /\ Len(payload) >= 8) =>
        /\ sat_status \in {"done", "truncated"}
        /\ Len(rows) = Min(DeclaredCount, (Len(payload) - 8) \div 12)
        /\ \A k \in 1 .. Len(rows) :
              /\ rows[k].base = 8 + 12 * (k - 1)
              /\ rows[k].base + 12 <= Len(payload)

\* The same, for the decoders the build contains in full.
C7_RowsWhereLoopCompiled ==
    (pc = "sat_done" /\ Len(payload) >= 8
        /\ (variant = "NAV_SAT" \/ debug_assertions)) =>
        /\ sat_status \in {"done", "truncated"}
        /\ Len(rows) = Min(DeclaredCount, (Len(payload) - 8) \div 12)
        /\ \A k \in 1 .. Len(rows) :
              /\ rows[k].base = 8 + 12 * (k - 1)
              /\ rows[k].base + 12 <= Len(payload)

====
